---- MODULE Spec2Model ----
(***************************************************************************)
(* A model of SlackScheduler.py: the planning calls that turn the config   *)
(* tables into jobs of the process-wide scheduler of the `schedule`        *)
(* library, the run loop that evaluates the pending jobs once per          *)
(* iteration and then sleeps 60 seconds, and the command handler.          *)
(*                                                                         *)
(* Time is the wall clock in whole minutes counted from a Monday 00:00.    *)
(* Strings that the code takes apart (command lines) are sequences of      *)
(* symbols: a symbol is a single space or an indivisible run of non-space  *)
(* characters.                                                             *)
(***************************************************************************)
EXTENDS Integers, Sequences, FiniteSets, TLC

VARIABLES
    config,     \* SlackScheduler.config (class attribute, never assigned by the code)
    pc,         \* the main thread: "setup", "running", "crashed", "blocked" (in a call)
    now,        \* wall clock, minutes since Monday 00:00
    jobs,       \* schedule.jobs of the default scheduler, in registration order
    calls,      \* history: the planning calls made so far, in order
    hist,       \* history, parallel to jobs: last delivery and deliveries in the tick minute
    ticked,     \* history: run_pending has been evaluated at least once
    tickTime,   \* history: wall-clock minute of the latest run_pending evaluation
    fired,      \* history: indices of the jobs whose closure called send_message in it
    runStart,   \* history: wall-clock minute at which run() was entered
    paused,     \* history: some sleep lasted longer than MaxSleep minutes
    ticks,      \* number of run loop iterations so far (capped by MaxTicks)
    evals,      \* history: evaluations made in the wall-clock minute tickTime
    cmdOut,     \* outcome of the latest handle_command call
    cmdThread,  \* the command thread: "alive", "dead" (left by an exception), "blocked"
    sends,      \* history: the send_message calls of the latest evaluation or command
    failed,     \* history: the job runs whose send_message call failed, before sends
    logged      \* the time text of the latest log line the model follows

vars == <<config, pc, now, jobs, calls, hist, ticked, tickTime, fired, runStart,
          paused, ticks, evals, cmdOut, cmdThread, sends, failed, logged>>

---------------------------------------------------------------------------
(* Bounds of the model *)

\* planning calls and constructor calls made before run()
MaxCalls == 2

\* run loop iterations explored
MaxTicks == 3

\* longest time, in minutes, from one evaluation to the next while the process
\* is not suspended: 1 when the 60 second sleep ends in the following minute,
\* 2 when sleep plus evaluation time carries it over one more minute boundary
MaxSleep == 2

\* longest command line, in words
MaxWords == 4

\* longest message of a send command with mentions, in pieces
MaxPieces == 4

\* longest send command with switches, in words after /w
MaxArgs == 5

---------------------------------------------------------------------------
(* Calendar: datetime.datetime.now() as (weekday, minute of day) *)

Weekdays == <<"monday", "tuesday", "wednesday", "thursday", "friday", "saturday", "sunday">>

DaysPerWeek == Len(Weekdays)

MinPerHour == 60

HoursPerDay == 24

MinPerDay == HoursPerDay * MinPerHour

MinPerWeek == DaysPerWeek * MinPerDay

\* index (1..7) of a weekday name; 0 for a name that is no weekday
DayIndex(d) ==
    IF \E i \in 1..DaysPerWeek : Weekdays[i] = d
    THEN CHOOSE i \in 1..DaysPerWeek : Weekdays[i] = d
    ELSE 0

\* datetime.datetime.now().strftime("%A").lower()
Weekday(t) == Weekdays[((t \div MinPerDay) % DaysPerWeek) + 1]

MinuteOfDay(t) == t % MinPerDay

\* absolute minute of (weekday d, minute of day m) in week w
At(w, d, m) == w * MinPerWeek + (DayIndex(d) - 1) * MinPerDay + m

---------------------------------------------------------------------------
(* Time texts and convert_to_24h_format *)

\* a zero-padded 12-hour text such as "09:00 AM"
T(h, m, p) == [h |-> h, m |-> m, p |-> p, pad |-> TRUE]

\* the same time written without the leading zero, such as "9:00 AM"
U(h, m, p) == [h |-> h, m |-> m, p |-> p, pad |-> FALSE]

\* strptime(time_str, "%I:%M %p") accepts the text
ValidTimeText(s) ==
    /\ s.h \in 1..12
    /\ s.m \in 0..(MinPerHour - 1)
    /\ s.p \in {"AM", "PM"}

\* mutant: the hour 12 is not folded to 0
convert_to_24h_format_no_fold(s) ==
    [H |-> s.h + (IF s.p = "PM" THEN 12 ELSE 0), M |-> s.m]

\* strptime(...).strftime("%H:%M"): hour 0..23 and minute, for a valid text
convert_to_24h_format(s) ==
    [H |-> (s.h % 12) + (IF s.p = "PM" THEN 12 ELSE 0), M |-> s.m]

\* Job.at("HH:MM"): the time of day the job runs at, as a minute of the day
AtTime(hm) == hm.H * MinPerHour + hm.M

\* current_time_str() at time t: strftime("%I:%M %p"), the hour of the
\* 12-hour clock with its leading zero, the minute, and AM before noon
current_time_str(t) ==
    LET hour == MinuteOfDay(t) \div MinPerHour
    IN  T(IF hour % 12 = 0 THEN 12 ELSE hour % 12,
          MinuteOfDay(t) % MinPerHour,
          IF hour < 12 THEN "AM" ELSE "PM")

\* no log line yet
NoLog == [h |-> 0, m |-> 0, p |-> "", pad |-> TRUE]

---------------------------------------------------------------------------
(* The shipped configuration (SlackScheduler.config) *)

ShippedFlags ==
    [day_shift |-> TRUE, night_shift |-> TRUE, weekend_shift |-> TRUE,
     overtime_shift |-> TRUE, meeting_reminders |-> FALSE, random_messages |-> FALSE]

\* shift_message_config["day_shift"]
ShippedDayShift ==
    [days |-> <<"monday", "tuesday", "wednesday", "thursday", "friday">>,
     messages |-> <<
        [time |-> T(9, 0, "AM"), message |-> "Good morning, team. Let's commence our cybersecurity tasks for the day."],
        [time |-> T(11, 15, "AM"), message |-> "Reminder: Short break from 11:15 to 11:30. Please take a moment to rest."],
        [time |-> T(11, 30, "AM"), message |-> "Break time is over. Please continue with your scheduled cybersecurity activities."],
        [time |-> T(1, 0, "PM"), message |-> "Lunch break from 13:00 to 14:00. Remember to step away from your workstations."],
        [time |-> T(2, 0, "PM"), message |-> "Lunch break has ended. Resume your cybersecurity responsibilities."],
        [time |-> T(4, 0, "PM"), message |-> "Scheduled break from 16:00 to 16:15. A brief pause for regrouping."],
        [time |-> T(4, 15, "PM"), message |-> "Break time has concluded. Please proceed with your tasks."],
        [time |-> T(5, 0, "PM"), message |-> "End of day's shift. Ensure your work is properly saved and secured."]
     >>]

\* shift_message_config["night_shift"]
ShippedNightShift ==
    [days |-> <<"monday", "tuesday", "wednesday", "thursday", "friday">>,
     messages |-> <<
        [time |-> T(6, 30, "PM"), message |-> "Night shift commences. Teams are to remain vigilant."],
        [time |-> T(8, 0, "PM"), message |-> "Scheduled break from 20:00 to 20:15. Please take this time to relax."],
        [time |-> T(8, 15, "PM"), message |-> "Break has ended. Resume night-time cybersecurity operations."],
        [time |-> T(9, 0, "PM"), message |-> "Mid-shift break from 21:00 to 21:15. Use this time to recharge."],
        [time |-> T(10, 0, "PM"), message |-> "Continue with night shift duties. Maintain focus and diligence."],
        [time |-> T(12, 0, "AM"), message |-> "Short break from 00:00 to 00:15. Stay alert and prepared."],
        [time |-> T(12, 15, "AM"), message |-> "Resume night shift activities until the end of the shift."],
        [time |-> T(2, 0, "AM"), message |-> "Night shift concludes. Ensure all tasks are completed before logging off."]
     >>]

\* shift_message_config["weekend"]
ShippedWeekend ==
    [days |-> <<"saturday", "sunday">>,
     messages |-> <<
        [time |-> T(11, 0, "AM"), message |-> "Weekend operations start now. Dedication to tasks is essential."],
        [time |-> T(1, 0, "PM"), message |-> "Lunch break from 13:00 to 14:00. Take this time for a proper meal."],
        [time |-> T(2, 0, "PM"), message |-> "Resume weekend duties. Focus on completing all scheduled activities."],
        [time |-> T(4, 0, "PM"), message |-> "Take a brief break from 16:00 to 16:15. Reflect on tasks completed."],
        [time |-> T(4, 15, "PM"), message |-> "Continue with the remaining tasks for the weekend."],
        [time |-> T(5, 0, "PM"), message |-> "Weekend operations conclude. Ensure all activities are logged appropriately."]
     >>]

\* shift_message_config["overtime"]
ShippedOvertime ==
    [days |-> <<"saturday", "sunday">>,
     messages |-> <<
        [time |-> T(2, 0, "AM"), message |-> "Overtime shift begins. Please concentrate on pending tasks."],
        [time |-> T(3, 30, "AM"), message |-> "Short break from 03:30 to 03:45. Use this time to rest briefly."],
        [time |-> T(3, 45, "AM"), message |-> "Resume overtime work. Prioritize tasks efficiently."],
        [time |-> T(5, 0, "AM"), message |-> "Take a final break from 05:00 to 05:15. Prepare for the last stretch of work."],
        [time |-> T(5, 15, "AM"), message |-> "Continue with the remaining overtime tasks."],
        [time |-> T(6, 0, "AM"), message |-> "Overtime shift ends. Confirm completion of all tasks before logging off."]
     >>]

ShippedMeetings ==
    <<
        [time |-> T(9, 30, "AM"), days |-> <<"monday">>,
         message |-> "9:30 AM - 10:00 AM (Mon) - Cybersecurity Sprint Planning"],
        [time |-> T(11, 15, "AM"), days |-> <<"monday", "tuesday", "wednesday", "thursday", "friday">>,
         message |-> "11:15 AM - 11:30 AM (Every weekday (Mon-Fri)) - Threat Intelligence Briefing"],
        [time |-> T(11, 40, "AM"), days |-> <<"monday", "tuesday", "wednesday", "thursday", "friday">>,
         message |-> "11:40 AM - 12:10 PM (Every weekday (Mon-Fri)) - Security Operations Sync-Up"],
        [time |-> T(1, 0, "PM"), days |-> <<"tuesday">>,
         message |-> "1:00 PM - 2:00 PM (Tue) - Vulnerability Assessment Review"],
        [time |-> T(1, 30, "PM"), days |-> <<"thursday">>,
         message |-> "1:30 PM - 2:30 PM (Thu) - Incident Response Team Meeting"],
        [time |-> T(2, 30, "PM"), days |-> <<"friday">>,
         message |-> "2:30 PM - 3:00 PM (Fri) - Weekly Cybersecurity Strategy Session"],
        [time |-> T(4, 0, "PM"), days |-> <<"friday">>,
         message |-> "4:00 PM - 4:30 PM (Fri) - Security Tooling Sprint Review"],
        [time |-> T(4, 30, "PM"), days |-> <<"friday">>,
         message |-> "4:30 PM - 5:00 PM (Fri) - Cybersecurity Retrospective and Look Ahead"]
    >>

\* config["commands"]: has_default tells whether the entry has a
\* "default_channel" key
ShippedCommands ==
    (<<"help">> :> [has_default |-> FALSE, default_channel |-> <<>>]) @@
    (<<"/w">>   :> [has_default |-> TRUE,  default_channel |-> <<"C043NCYSH1V">>])

ShippedTable ==
    [day_shift |-> ShippedDayShift, night_shift |-> ShippedNightShift,
     weekend |-> ShippedWeekend, overtime |-> ShippedOvertime]

ShippedConfig ==
    [enable_features |-> ShippedFlags,
     shift_message_config |-> ShippedTable,
     meeting_reminders |-> ShippedMeetings,
     commands |-> ShippedCommands]

---------------------------------------------------------------------------
(* Other configurations: the same keys, small tables *)

\* one shift block or meeting entry
Block(days, messages) == [days |-> days, messages |-> messages]

Msg(time, message) == [time |-> time, message |-> message]

Meeting(time, days, message) == [time |-> time, days |-> days, message |-> message]

AllOn == [ShippedFlags EXCEPT !.meeting_reminders = TRUE]

\* the keys of a Python dict are the DOMAIN of the record
Without(f, k) == [x \in (DOMAIN f) \ {k} |-> f[x]]

\* a shift message and a meeting at the same (day, time), two shift categories
\* listing the same (day, time, message), a weekday listed twice
CfgOverlap ==
    [enable_features |-> AllOn,
     shift_message_config |->
        [day_shift   |-> Block(<<"monday", "tuesday">>, <<Msg(T(9, 0, "AM"), "A")>>),
         night_shift |-> Block(<<"monday">>, <<Msg(T(9, 0, "AM"), "A")>>),
         weekend     |-> Block(<<"saturday">>, <<Msg(T(11, 0, "AM"), "W")>>),
         overtime    |-> Block(<<"sunday">>, <<Msg(T(2, 0, "AM"), "O")>>)],
     meeting_reminders |->
        <<Meeting(T(9, 0, "AM"), <<"monday", "monday">>, "M"),
          Meeting(U(9, 0, "AM"), <<"tuesday">>, "N")>>,
     commands |-> ShippedCommands]

\* triggers in the last minute of a day and on the following day
CfgMidnight ==
    [enable_features |-> AllOn,
     shift_message_config |->
        [day_shift   |-> Block(<<"monday", "tuesday">>, <<Msg(T(11, 59, "PM"), "L")>>),
         night_shift |-> Block(<<"tuesday">>, <<Msg(T(12, 0, "AM"), "Z")>>),
         weekend     |-> Block(<<>>, <<>>),
         overtime    |-> Block(<<>>, <<>>)],
     meeting_reminders |->
        <<Meeting(T(11, 59, "PM"), <<"monday">>, "M"),
          Meeting(T(9, 0, "AM"), <<"tuesday">>, "N")>>,
     commands |-> ShippedCommands]

\* categories switched off or without a flag, and no default channel for /w
CfgGated ==
    [enable_features |->
        Without([AllOn EXCEPT !.day_shift = FALSE, !.meeting_reminders = FALSE],
                "night_shift"),
     shift_message_config |-> CfgOverlap.shift_message_config,
     meeting_reminders |-> CfgOverlap.meeting_reminders,
     commands |-> [ShippedCommands EXCEPT ![<<"/w">>] = [has_default |-> FALSE,
                                                        default_channel |-> <<>>]]]

\* enable_features without the meeting_reminders key; a time text strptime rejects
CfgBroken ==
    [enable_features |-> Without(AllOn, "meeting_reminders"),
     shift_message_config |->
        [day_shift   |-> Block(<<"monday">>, <<Msg(T(9, 0, "AM"), "A"),
                                               Msg(T(13, 0, "PM"), "X"),
                                               Msg(T(9, 1, "AM"), "B")>>),
         night_shift |-> Block(<<"monday">>, <<Msg(T(9, 1, "AM"), "C")>>),
         weekend     |-> Block(<<>>, <<>>),
         overtime    |-> Block(<<>>, <<>>)],
     meeting_reminders |-> <<Meeting(T(9, 0, "AM"), <<"monday">>, "M")>>,
     commands |-> ShippedCommands]

\* the configurations explored, each with the time at which the process is
\* started: shortly before a trigger time
Starts ==
    {<<ShippedConfig, At(0, "monday", 8 * MinPerHour + 59)>>,
     <<CfgOverlap,    At(0, "monday", 8 * MinPerHour + 59)>>,
     <<CfgMidnight,   At(0, "monday", MinPerDay - 2)>>,
     <<CfgGated,      At(0, "monday", 8 * MinPerHour + 59)>>,
     <<CfgBroken,     At(0, "monday", 8 * MinPerHour + 59)>>}

\* two meetings on the same day at the same time of day, written "01:00 PM"
\* and "1:00 PM"
CfgTexts ==
    [enable_features |-> AllOn,
     shift_message_config |->
        [day_shift   |-> Block(<<"monday">>, <<Msg(T(1, 1, "PM"), "A")>>),
         night_shift |-> Block(<<>>, <<>>),
         weekend     |-> Block(<<>>, <<>>),
         overtime    |-> Block(<<>>, <<>>)],
     meeting_reminders |->
        <<Meeting(T(1, 0, "PM"), <<"monday">>, "M"),
          Meeting(U(1, 0, "PM"), <<"monday">>, "N")>>,
     commands |-> ShippedCommands]

\* started with that table on Monday 12:59
KeyStarts == {<<CfgTexts, At(0, "monday", 12 * MinPerHour + 59)>>}

\* a table with one trigger, on Monday at the time written as text
CfgTime(text) ==
    [enable_features |-> AllOn,
     shift_message_config |->
        [day_shift   |-> Block(<<"monday">>, <<Msg(text, "A")>>),
         night_shift |-> Block(<<>>, <<>>),
         weekend     |-> Block(<<>>, <<>>),
         overtime    |-> Block(<<>>, <<>>)],
     meeting_reminders |-> <<>>,
     commands |-> ShippedCommands]

\* every minute t of a Monday as the start time, with the table whose
\* trigger is written as the 12-hour text of t, with or without leading zero
CodecStarts ==
    {<<CfgTime([current_time_str(t) EXCEPT !.pad = pad]), t>> :
        t \in 0..(MinPerDay - 1), pad \in BOOLEAN}

\* channel_id arguments of the planning calls
Channels == {"Your Channel ID"}

\* shift_type arguments of schedule_shift_reminders: the four of the example
\* implementation
ShiftTypes == {"day_shift", "night_shift", "weekend_shift", "overtime_shift"}

---------------------------------------------------------------------------
(* The `schedule` library: jobs and their next run *)

\* last_run of a job that has not run yet (None)
Never == 0 - 1

\* mutant: the occurrence in the current minute counts as the next one
NextRunAtOrAfter(unit, start_day, at_time, t) ==
    LET today == (t \div MinPerDay) * MinPerDay
        ahead == IF unit = "weeks"
                 THEN (DayIndex(start_day) - DayIndex(Weekday(t))) % DaysPerWeek
                 ELSE 0
        first == today + ahead * MinPerDay + at_time
        period == IF unit = "weeks" THEN MinPerWeek ELSE MinPerDay
    IN  IF first >= t THEN first ELSE first + period

\* Job._schedule_next_run as called by do() and after each run: the first
\* occurrence of at_time (on start_day, for a weekly job) strictly after now
NextRun(unit, start_day, at_time, t) ==
    LET today == (t \div MinPerDay) * MinPerDay
        ahead == IF unit = "weeks"
                 THEN (DayIndex(start_day) - DayIndex(Weekday(t))) % DaysPerWeek
                 ELSE 0
        first == today + ahead * MinPerDay + at_time
        period == IF unit = "weeks" THEN MinPerWeek ELSE MinPerDay
    IN  IF first > t THEN first ELSE first + period

\* scheduled_message_sender(channel_id, message, day) registered with do():
\* the job and the values its closure captured. cat is history: the category
\* of the planning call that registered it.
NewJob(unit, start_day, at_time, channel, message, day, cat, t) ==
    [unit |-> unit, start_day |-> start_day, at_time |-> at_time,
     next_run |-> NextRun(unit, start_day, at_time, t), last_run |-> Never,
     channel |-> channel, message |-> message, day |-> day, cat |-> cat]

\* the (day, time, payload) an installed job stands for
Instr(j) == <<j.day, j.at_time, j.message>>

---------------------------------------------------------------------------
(* Planning: schedule_shift_reminders and schedule_meeting_reminders *)

\* mutant: a category without a flag counts as enabled
FeatureEnabledByDefault(cfg, shift_type) ==
    IF shift_type \in DOMAIN cfg.enable_features
    THEN cfg.enable_features[shift_type]
    ELSE TRUE

\* self.config["enable_features"].get(shift_type, False)
FeatureEnabled(cfg, shift_type) ==
    IF shift_type \in DOMAIN cfg.enable_features
    THEN cfg.enable_features[shift_type]
    ELSE FALSE

\* self.config["shift_message_config"].get(shift_type, {}) with the defaults
\* of .get("days", []) and .get("messages", {})
ShiftConfig(cfg, shift_type) ==
    IF shift_type \in DOMAIN cfg.shift_message_config
    THEN cfg.shift_message_config[shift_type]
    ELSE Block(<<>>, <<>>)

\* the (day, time_key, message) of the two nested loops, in loop order
ShiftTriggers(block) ==
    LET nm == Len(block.messages)
    IN  [k \in 1..(Len(block.days) * nm) |->
            [day     |-> block.days[((k - 1) \div nm) + 1],
             time    |-> block.messages[((k - 1) % nm) + 1].time,
             message |-> block.messages[((k - 1) % nm) + 1].message]]

\* index of the first iteration that raises, given for each iteration of a
\* loop whether it raises; 0 if none does
FirstIndex(raises) ==
    IF \E k \in 1..Len(raises) : raises[k]
    THEN CHOOSE k \in 1..Len(raises) :
            raises[k] /\ \A i \in 1..(k - 1) : ~raises[i]
    ELSE 0

\* schedule_shift_reminders(shift_type, channel_id) at time t on the job list
\* js: the new job list, and whether convert_to_24h_format raised ValueError
\* (the loop stops there; the jobs registered before it stay)
schedule_shift_reminders(cfg, shift_type, channel_id, js, t) ==
    IF ~FeatureEnabled(cfg, shift_type)
    THEN [jobs |-> js, raised |-> FALSE]
    ELSE
        LET trigs == ShiftTriggers(ShiftConfig(cfg, shift_type))
            bad == FirstIndex([k \in 1..Len(trigs) |-> ~ValidTimeText(trigs[k].time)])
            n == IF bad = 0 THEN Len(trigs) ELSE bad - 1
        IN  [jobs |-> js \o
                [k \in 1..n |->
                    NewJob("days", "none", AtTime(convert_to_24h_format(trigs[k].time)),
                           channel_id, trigs[k].message, trigs[k].day, shift_type, t)],
             raised |-> bad # 0]

\* the (day, time_key, message) of the two nested loops over meeting_reminders
RECURSIVE MeetingTriggers(_)
MeetingTriggers(entries) ==
    IF entries = <<>> THEN <<>>
    ELSE LET e == Head(entries)
         IN  [k \in 1..Len(e.days) |->
                [day |-> e.days[k], time |-> e.time, message |-> e.message]]
             \o MeetingTriggers(Tail(entries))

\* schedule_key = f"{day}_{time_key}" not in scheduled_times: no earlier
\* iteration of this call had the same day and the same time text
FreshKey(trigs, k) ==
    \A i \in 1..(k - 1) :
        <<trigs[i].day, trigs[i].time>> # <<trigs[k].day, trigs[k].time>>

\* schedule_meeting_reminders(channel_id) at time t on the job list js.
\* raised: KeyError for a missing meeting_reminders flag, AttributeError of
\* getattr(schedule.every(), day) for a day that is no weekday, or ValueError
\* of convert_to_24h_format
schedule_meeting_reminders(cfg, channel_id, js, t) ==
    IF "meeting_reminders" \notin DOMAIN cfg.enable_features
    THEN [jobs |-> js, raised |-> TRUE]
    ELSE IF ~cfg.enable_features["meeting_reminders"]
    THEN [jobs |-> js, raised |-> FALSE]
    ELSE
        LET trigs == MeetingTriggers(cfg.meeting_reminders)
            idx == [k \in 1..Len(trigs) |-> k]
            bad == FirstIndex([k \in 1..Len(trigs) |->
                        /\ FreshKey(trigs, k)
                        /\ \/ DayIndex(trigs[k].day) = 0
                           \/ ~ValidTimeText(trigs[k].time)])
            n == IF bad = 0 THEN Len(trigs) ELSE bad - 1
            Keep(k) == k <= n /\ FreshKey(trigs, k)
            kept == SelectSeq(idx, Keep)
        IN  [jobs |-> js \o
                [i \in 1..Len(kept) |->
                    NewJob("weeks", trigs[kept[i]].day,
                           AtTime(convert_to_24h_format(trigs[kept[i]].time)),
                           channel_id, trigs[kept[i]].message, trigs[kept[i]].day,
                           "meeting_reminders", t)],
             raised |-> bad # 0]

\* history entry of a job that has delivered nothing yet
NoHist == [lastSent |-> Never, cnt |-> 0]

\* hist extended to the length of the new job list
Extend(h, js) == [i \in 1..Len(js) |-> IF i <= Len(h) THEN h[i] ELSE NoHist]

---------------------------------------------------------------------------
(* The run loop: schedule.run_pending and the closures of the jobs *)

\* Job.should_run
ShouldRun(j, t) == t >= j.next_run

\* mutant: the closure sends without looking at the weekday
DayMatchesAlways(j, t) == TRUE

\* the test of the closure send(): the current weekday is the captured day
DayMatches(j, t) == Weekday(t) = j.day

\* indices of the jobs whose closure calls send_message in an evaluation at t
Delivered(js, t) == {i \in 1..Len(js) : ShouldRun(js[i], t) /\ DayMatches(js[i], t)}

\* schedule.run_pending() at time t: every job that should run is run, then
\* its last_run is set and its next run is scheduled
run_pending(js, t) ==
    [i \in 1..Len(js) |->
        IF ShouldRun(js[i], t)
        THEN [js[i] EXCEPT !.last_run = t,
                           !.next_run = NextRun(js[i].unit, js[i].start_day,
                                                js[i].at_time, t)]
        ELSE js[i]]

\* history after an evaluation at t: deliveries are counted per wall-clock minute
HistAfter(h, js, t, same) ==
    [i \in 1..Len(js) |->
        LET before == IF same THEN h[i].cnt ELSE 0
        IN  IF i \in Delivered(js, t)
            THEN [lastSent |-> t, cnt |-> before + 1]
            ELSE [lastSent |-> h[i].lastSent, cnt |-> before]]

---------------------------------------------------------------------------
(* CommandHandler.handle_command *)

SP == " "

\* the words command lines are made of
Words == {"/w", "-C", "C9", "hi", "help"}

\* the line of the words ws, separated by single spaces except for two spaces
\* after word number wide (0: nowhere)
RECURSIVE Spaced(_, _)
Spaced(ws, wide) ==
    IF ws = <<>> THEN <<>>
    ELSE IF Len(ws) = 1 THEN <<ws[1]>>
    ELSE <<ws[1]>> \o (IF wide = 1 THEN <<SP, SP>> ELSE <<SP>>)
         \o Spaced(Tail(ws), wide - 1)

\* the same line with a space before and after it
Padded(line) == <<SP>> \o line \o <<SP>>

\* the sequences of up to MaxWords words
WordSeqs == UNION {[1..n -> Words] : n \in 0..MaxWords}

\* the lines made of the words ws: at most one double space between two
\* words, with or without surrounding spaces
LinesOf(ws) ==
    LET plain == {Spaced(ws, wide) : wide \in (0..(Len(ws) - 1)) \cup {0}}
    IN  plain \cup {Padded(l) : l \in plain}

\* the command lines read by input()
Lines == UNION {LinesOf(ws) : ws \in WordSeqs}

\* str.strip() for lines of spaces and words
RECURSIVE Strip(_)
Strip(s) ==
    IF s = <<>> THEN s
    ELSE IF Head(s) = SP THEN Strip(Tail(s))
    ELSE IF s[Len(s)] = SP THEN Strip(SubSeq(s, 1, Len(s) - 1))
    ELSE s

\* str.split(" "): splits at every single space, so a run of spaces yields
\* empty strings
RECURSIVE Split(_)
Split(s) ==
    IF \E k \in 1..Len(s) : s[k] = SP
    THEN LET k == CHOOSE k \in 1..Len(s) :
                    s[k] = SP /\ \A i \in 1..(k - 1) : s[i] # SP
         IN  <<SubSeq(s, 1, k - 1)>> \o Split(SubSeq(s, k + 1, Len(s)))
    ELSE <<s>>

\* " ".join(message)
RECURSIVE Join(_)
Join(toks) ==
    IF toks = <<>> THEN <<>>
    ELSE IF Len(toks) = 1 THEN toks[1]
    ELSE toks[1] \o <<SP>> \o Join(Tail(toks))

\* an optional string: None, or a value
None == [some |-> FALSE, val |-> <<>>]

Some(v) == [some |-> TRUE, val |-> v]

\* Python truth value of None or a string
Truthy(o) == o.some /\ o.val # <<>>

\* the while loop over components from index i on: the channel_id and the
\* message list it ends with
RECURSIVE Scan(_, _, _, _)
Scan(components, i, channel_id, message) ==
    IF i > Len(components) THEN [channel_id |-> channel_id, message |-> message]
    ELSE IF components[i] = <<"-C">> /\ (i + 1) <= Len(components)
    THEN Scan(components, i + 2, Some(components[i + 1]), message)
    ELSE Scan(components, i + 1, channel_id, Append(message, components[i]))

\* self.scheduler.config["commands"].get(cmd, {}).get("default_channel", None)
DefaultChannel(cfg, cmd) ==
    IF cmd \in DOMAIN cfg.commands /\ cfg.commands[cmd].has_default
    THEN Some(cfg.commands[cmd].default_channel)
    ELSE None

\* mutant: every command name is taken for the send command
IsSendCommandAlways(cmd) == TRUE

\* cmd == "/w"
IsSendCommand(cmd) == cmd = <<"/w">>

\* what a handle_command call did: kind "sent" is the call of
\* send_to_channel(channel, text), the other kinds are the printed responses
Outcome(line, kind, name, channel, text) ==
    [line |-> line, kind |-> kind, name |-> name, channel |-> channel, text |-> text]

\* the outcome before any command was read
NoCommand == Outcome(<<>>, "none", <<>>, <<>>, <<>>)

\* handle_command(command)
handle_command(cfg, command) ==
    LET all == Split(Strip(command))
        cmd == Head(all)
        components == Tail(all)
    IN  IF cmd = <<"help">>
        THEN IF components # <<>>
             THEN IF components[1] \in DOMAIN cfg.commands
                  THEN Outcome(command, "help_cmd", components[1], <<>>, <<>>)
                  ELSE Outcome(command, "no_help", components[1], <<>>, <<>>)
             ELSE Outcome(command, "help_list", <<>>, <<>>, <<>>)
        ELSE
            LET r == Scan(components, 1, None, <<>>)
                message_text == Strip(Join(r.message))
                channel_id == IF Truthy(r.channel_id) THEN r.channel_id
                              ELSE DefaultChannel(cfg, cmd)
            IN  IF IsSendCommand(cmd)
                THEN IF Truthy(channel_id) /\ message_text # <<>>
                     THEN Outcome(command, "sent", cmd, channel_id.val, message_text)
                     ELSE Outcome(command, "usage", cmd, <<>>, <<>>)
                ELSE Outcome(command, "unrecognized", cmd, <<>>, <<>>)

---------------------------------------------------------------------------
(* SlackScheduler.send_message: mentions, the Directory and the Notifier *)

\* the characters \w matches, among the characters of the model; a command
\* word of Words made of word characters counts as one
WordChars == {"a", "b", "h", "e", "r", "x", "U", "1", "2", "3", "hi", "C9", "help"}

\* index of the last character of the run of word characters that starts at i
RECURSIVE RunEnd(_, _)
RunEnd(s, i) ==
    IF i < Len(s) /\ s[i + 1] \in WordChars THEN RunEnd(s, i + 1) ELSE i

\* re.findall(r'@(\w+)(?=\s|\.|!|\/|\W)', message) from index i on: an @, the
\* longest run of word characters after it, and after the run one more
\* character, which is not a word character; a run that ends the message
\* does not match
RECURSIVE FindAll(_, _)
FindAll(s, i) ==
    IF i > Len(s) THEN <<>>
    ELSE IF s[i] = "@" /\ i < Len(s) /\ s[i + 1] \in WordChars
    THEN LET j == RunEnd(s, i + 1)
         IN  IF j < Len(s)
             THEN <<SubSeq(s, i + 1, j)>> \o FindAll(s, j + 1)
             ELSE FindAll(s, i + 1)
    ELSE FindAll(s, i + 1)

\* str.replace(old, new): every occurrence of old, found from left to right
\* without overlap, becomes new
RECURSIVE Replace(_, _, _)
Replace(s, old, new) ==
    IF Len(s) < Len(old) THEN s
    ELSE IF SubSeq(s, 1, Len(old)) = old
    THEN new \o Replace(SubSeq(s, Len(old) + 1, Len(s)), old, new)
    ELSE <<s[1]>> \o Replace(Tail(s), old, new)

\* the user names of the model
Alice == <<"a">>

Alicia == <<"a", "b">>

Here == <<"h", "e", "r", "e">>

\* member['id'] of the member named name
UserId(name) ==
    IF name = Alice THEN <<"U", "1">>
    ELSE IF name = Alicia THEN <<"U", "2">>
    ELSE <<"U", "3">>

\* what self.client.users_list() does during one send_message call: it
\* returns the members with these names ("ok"), raises SlackApiError
\* ("api_error") or raises another exception, such as a connection failure
\* ("error")
Directory(mode, names) == [mode |-> mode, names |-> names]

Directories ==
    {Directory("ok", ns) : ns \in SUBSET {Alice, Alicia, Here}}
        \cup {Directory("api_error", {}), Directory("error", {})}

\* a Directory without members
NoUsers == Directory("ok", {})

\* get_user_id(username) when users_list does not raise an exception other
\* than SlackApiError: the id of the member with that name, or None
get_user_id(dir, username) ==
    IF dir.mode = "ok" /\ username \in dir.names THEN Some(UserId(username)) ELSE None

\* f"<@{user_id}>"
UserTag(user_id) == <<"<", "@">> \o user_id \o <<">">>

\* the for loop of send_message over usernames, from index k on
RECURSIVE Substitute(_, _, _, _)
Substitute(dir, usernames, k, message) ==
    IF k > Len(usernames) THEN message
    ELSE LET user_id == get_user_id(dir, usernames[k])
         IN  IF Truthy(user_id)
             THEN Substitute(dir, usernames, k + 1,
                             Replace(message, <<"@">> \o usernames[k], UserTag(user_id.val)))
             ELSE Substitute(dir, usernames, k + 1, message)

\* message.replace("@here", "<!here>")
FormatHere(message) == Replace(message, <<"@">> \o Here, <<"<", "!">> \o Here \o <<">">>)

\* the text send_message hands to chat_postMessage
Formatted(dir, message) == FormatHere(Substitute(dir, FindAll(message, 1), 1, message))

\* what self.client.chat_postMessage does: it returns ("ok"), raises
\* SlackApiError ("api_error"), raises another exception ("error") or never
\* returns ("hangs")
PostResults == {"ok", "api_error", "error", "hangs"}

\* send_message(channel_id, message), called by src (a job and the run it was
\* due for, or the command thread): the chat_postMessage calls it made and
\* how it ended. A
\* users_list exception other than SlackApiError leaves get_user_id and
\* send_message before the post ("lookup_error"); otherwise there is one
\* post, and the call ends as the post does.
send_message(src, dir, channel_id, message, out) ==
    IF FindAll(message, 1) # <<>> /\ dir.mode = "error"
    THEN [src |-> src, channel |-> channel_id, message |-> message, dir |-> dir,
          posts |-> <<>>, result |-> "lookup_error"]
    ELSE [src |-> src, channel |-> channel_id, message |-> message, dir |-> dir,
          posts |-> <<[channel |-> channel_id, text |-> Formatted(dir, message)]>>,
          result |-> out]

\* the caller of send_message: the closure of job number i, run because the
\* job was due at its next_run
ByJob(js, i) == [job |-> i, due |-> js[i].next_run]

\* the caller of send_message: send_to_channel, in the command thread
ByCommand == [job |-> 0, due |-> Never]

\* the job runs whose send_message call, among sends, did not end in a
\* successful post
Failures(ss) == {send.src : send \in {x \in ss : x.result # "ok" /\ x.src # ByCommand}}

\* the call was left by an exception, which the caller does not catch either
Raised(send) == send.result \in {"error", "lookup_error"}

\* the call never returns
Hangs(send) == send.result = "hangs"

\* the pieces the messages with mentions are made of: a mention of each
\* user name, a space, a punctuation mark and a letter
Pieces == {<<"@">> \o Alice, <<"@">> \o Alicia, <<"@">> \o Here, <<SP>>, <<"!">>, <<"x">>}

\* concatenation of a sequence of pieces
RECURSIVE Concat(_)
Concat(ps) == IF ps = <<>> THEN <<>> ELSE Head(ps) \o Concat(Tail(ps))

\* the messages of up to MaxPieces pieces
Messages == {Concat(ps) : ps \in UNION {[1..n -> Pieces] : n \in 0..MaxPieces}}

\* the command lines "/w <message>"
SendLines == {<<"/w", SP>> \o m : m \in Messages}

---------------------------------------------------------------------------
(* The program *)

\* the state after SlackScheduler("Your API Key") at some start time: the
\* constructor has cleared the schedule
InitAt(starts) ==
    /\ \E s \in starts : config = s[1] /\ now = s[2]
    /\ pc = "setup"
    /\ jobs = <<>>
    /\ calls = <<>>
    /\ hist = <<>>
    /\ ticked = FALSE
    /\ tickTime = 0
    /\ fired = {}
    /\ runStart = 0
    /\ paused = FALSE
    /\ ticks = 0
    /\ evals = 0
    /\ cmdOut = NoCommand
    /\ cmdThread = "alive"
    /\ sends = {}
    /\ failed = {}
    /\ logged = NoLog

Init == InitAt(Starts)

\* SlackScheduler.__init__ called again: clear_schedule() empties the
\* schedule of the process
Construct ==
    /\ pc = "setup"
    /\ Len(calls) < MaxCalls
    /\ jobs' = <<>>
    /\ hist' = <<>>
    /\ calls' = Append(calls, [op |-> "init", arg |-> "", first |-> 1, last |-> 0,
                               raised |-> FALSE])
    /\ UNCHANGED <<config, pc, now, ticked, tickTime, fired, runStart, paused, ticks,
                   evals, cmdOut, cmdThread, sends, failed, logged>>

\* a planning call that returned r; an exception ends the script
Planned(op, arg, r) ==
    /\ jobs' = r.jobs
    /\ hist' = Extend(hist, r.jobs)
    /\ calls' = Append(calls, [op |-> op, arg |-> arg,
                               first |-> Len(jobs) + 1, last |-> Len(r.jobs),
                               raised |-> r.raised])
    /\ pc' = IF r.raised THEN "crashed" ELSE pc
    /\ UNCHANGED <<config, now, ticked, tickTime, fired, runStart, paused, ticks, evals,
                   cmdOut, cmdThread, sends, failed, logged>>

\* slack_scheduler.schedule_shift_reminders(shift_type, channel_id)
CallShift ==
    /\ pc = "setup"
    /\ Len(calls) < MaxCalls
    /\ \E shift_type \in ShiftTypes, channel_id \in Channels :
          Planned("shift", shift_type,
                  schedule_shift_reminders(config, shift_type, channel_id, jobs, now))

\* slack_scheduler.schedule_meeting_reminders(channel_id)
CallMeeting ==
    /\ pc = "setup"
    /\ Len(calls) < MaxCalls
    /\ \E channel_id \in Channels :
          Planned("meeting", "meeting_reminders",
                  schedule_meeting_reminders(config, channel_id, jobs, now))

\* slack_scheduler.run() is entered: the command thread is started
StartRun ==
    /\ pc = "setup"
    /\ pc' = "running"
    /\ runStart' = now
    /\ UNCHANGED <<config, now, jobs, calls, hist, ticked, tickTime, fired, paused,
                   ticks, evals, cmdOut, cmdThread, sends, failed, logged>>

\* the text of a configured message or channel: the configured texts hold
\* no @, so that the model keeps each as one symbol
Text(m) == <<m>>

\* the send_message call of the closure of job number i, as the Notifier
\* answers out
JobSend(js, i, out) ==
    send_message(ByJob(js, i), NoUsers, Text(js[i].channel), Text(js[i].message), out)

\* one iteration of the loop of run(): run_pending() at the current minute,
\* then time.sleep(60); the next iteration starts d minutes later. Every
\* chat_postMessage call returns.
Iteration(d) ==
    /\ pc = "running"
    /\ ticks < MaxTicks
    /\ jobs' = run_pending(jobs, now)
    /\ fired' = Delivered(jobs, now)
    /\ hist' = HistAfter(hist, jobs, now, ticked /\ tickTime = now)
    /\ sends' = {JobSend(jobs, i, "ok") : i \in Delivered(jobs, now)}
    /\ failed' = failed \cup Failures(sends)
    /\ ticked' = TRUE
    /\ tickTime' = now
    /\ now' = now + d
    /\ ticks' = ticks + 1
    /\ evals' = IF ticked /\ tickTime = now THEN evals + 1 ELSE 1
    /\ paused' = (paused \/ d > MaxSleep)
    /\ UNCHANGED <<config, pc, calls, runStart, cmdOut, cmdThread, logged>>

\* the loop while the process runs without interruption
RunIteration == \E d \in 1..MaxSleep : Iteration(d)

\* the process is suspended during the sleep (a stopped process, a sleeping
\* host) and resumes a day or a week later
Pauses == {MinPerDay - 1, MinPerWeek}

RunIterationSuspended == \E d \in Pauses : Iteration(d)

\* the wall clock is set back one minute during the sleep (datetime.now() is
\* the wall clock, time.sleep is not): the next evaluation falls in the same
\* wall-clock minute
RunIterationClockSetBack == Iteration(0)

\* run_pending runs sorted(runnable_jobs), jobs compare by next_run and the
\* sort is stable: job i runs before job f
RunsBefore(js, i, f) ==
    \/ js[i].next_run < js[f].next_run
    \/ js[i].next_run = js[f].next_run /\ i < f

\* mutant: a job whose post fails is not rescheduled and stays due
CompletedOnSuccess(js, t, f, out) ==
    {i \in 1..Len(js) :
        /\ ShouldRun(js[i], t)
        /\ out = "ok" \/ RunsBefore(js, i, f)}

\* the jobs whose run completes in an evaluation at t in which the post of
\* job f ends as out: all that should run when the post returns; those that
\* run before f when it raises an exception, which leaves Job.run,
\* run_pending and run(), or when it never returns
Completed(js, t, f, out) ==
    {i \in 1..Len(js) :
        /\ ShouldRun(js[i], t)
        /\ out \in {"ok", "api_error"} \/ RunsBefore(js, i, f)}

\* the jobs whose closure calls send_message in that evaluation
Started(js, t, f, out) == Delivered(js, t) \cap (Completed(js, t, f, out) \cup {f})

\* one iteration of the loop of run() in which the chat_postMessage call made
\* for job f does not return normally
FailingIteration(d) ==
    /\ pc = "running"
    /\ ticks < MaxTicks
    /\ \E f \in Delivered(jobs, now), out \in PostResults \ {"ok"} :
        LET done == Completed(jobs, now, f, out)
            started == Started(jobs, now, f, out)
            same == ticked /\ tickTime = now
        IN  /\ jobs' = [i \in 1..Len(jobs) |->
                          IF i \in done THEN run_pending(jobs, now)[i] ELSE jobs[i]]
            /\ fired' = started
            /\ hist' = [i \in 1..Len(jobs) |->
                          IF i \in started THEN HistAfter(hist, jobs, now, same)[i]
                          ELSE [lastSent |-> hist[i].lastSent,
                                cnt |-> IF same THEN hist[i].cnt ELSE 0]]
            /\ sends' = {JobSend(jobs, i, IF i = f THEN out ELSE "ok") : i \in started}
            /\ failed' = failed \cup Failures(sends)
            /\ pc' = IF out = "error" THEN "crashed"
                     ELSE IF out = "hangs" THEN "blocked"
                     ELSE pc
    /\ ticked' = TRUE
    /\ tickTime' = now
    /\ now' = now + d
    /\ ticks' = ticks + 1
    /\ evals' = IF ticked /\ tickTime = now THEN evals + 1 ELSE 1
    /\ paused' = (paused \/ d > MaxSleep)
    /\ UNCHANGED <<config, calls, runStart, cmdOut, cmdThread, logged>>

RunIterationFailing == \E d \in 1..MaxSleep : FailingIteration(d)

\* listen_for_commands: input() returns a line and handle_command(cmd) runs;
\* when it calls send_to_channel, send_message runs in the command thread
\* with the Directory answering as dir and the Notifier as out. The command
\* thread is a daemon thread: it ends with the main thread.
CommandStep(lines, dirs, outs) ==
    /\ pc \in {"running", "blocked"}
    /\ cmdThread = "alive"
    /\ cmdOut = NoCommand
    /\ \E line \in lines, dir \in dirs, out \in outs :
        LET o == handle_command(config, line)
            send == send_message(ByCommand, dir, o.channel, o.text, out)
        IN  /\ cmdOut' = o
            /\ sends' = IF o.kind = "sent" THEN {send} ELSE {}
            /\ failed' = failed \cup Failures(sends)
            /\ cmdThread' = IF o.kind = "sent" /\ Raised(send) THEN "dead"
                            ELSE IF o.kind = "sent" /\ Hangs(send) THEN "blocked"
                            ELSE cmdThread
    /\ UNCHANGED <<config, pc, now, calls, ticked, tickTime, fired, runStart,
                   paused, ticks, evals, logged>>

\* mutant: the command handler clears the schedule
HandleCommandClearing(lines, dirs, outs) ==
    /\ CommandStep(lines, dirs, outs)
    /\ jobs' = <<>>
    /\ hist' = <<>>

\* neither handle_command nor send_message calls into the schedule
HandleCommand(lines, dirs, outs) ==
    /\ CommandStep(lines, dirs, outs)
    /\ UNCHANGED <<jobs, hist>>

\* listen_for_commands: handle_command has returned, the loop is back in
\* input(); the history of the command is dropped
AwaitInput ==
    /\ pc \in {"running", "blocked"}
    /\ cmdThread = "alive"
    /\ cmdOut # NoCommand
    /\ cmdOut' = NoCommand
    /\ sends' = {send \in sends : send.src # ByCommand}
    /\ UNCHANGED <<config, pc, now, jobs, calls, hist, ticked, tickTime, fired, runStart,
                   paused, ticks, evals, cmdThread, failed, logged>>

Next ==
    \/ Construct
    \/ CallShift
    \/ CallMeeting
    \/ StartRun
    \/ RunIteration
    \/ RunIterationSuspended

Spec == Init /\ [][Next]_vars

\* the same program, started with the table of CfgTexts
SpecKeys == InitAt(KeyStarts) /\ [][Next]_vars

\* the run loop of a process that is never suspended, with wall-clock
\* adjustments
NextClock ==
    \/ Construct
    \/ CallShift
    \/ CallMeeting
    \/ StartRun
    \/ RunIteration
    \/ RunIterationClockSetBack

SpecClock == Init /\ [][NextClock]_vars

\* the command thread alone, on every line of up to MaxWords words
NextCmd ==
    \/ StartRun
    \/ HandleCommand(Lines, {NoUsers}, {"ok"})
    \/ AwaitInput

SpecCmd == Init /\ [][NextCmd]_vars

\* log_message(action, message): the line starts with current_time_str()
LogMessage ==
    /\ logged' = current_time_str(now)
    /\ UNCHANGED <<config, pc, now, jobs, calls, hist, ticked, tickTime, fired, runStart,
                   paused, ticks, evals, cmdOut, cmdThread, sends, failed>>

\* the time codec: the shift planning of a table written for the start
\* minute, and a log line
NextCodec ==
    \/ CallShift
    \/ LogMessage

SpecCodec == InitAt(CodecStarts) /\ [][NextCodec]_vars

\* the command thread alone, on send commands whose messages hold mentions,
\* with every answer of the Directory
NextSend ==
    \/ StartRun
    \/ HandleCommand(SendLines, Directories, {"ok"})
    \/ AwaitInput

SpecSend == Init /\ [][NextSend]_vars

\* the line read while deliveries fail: a send command with a mention
DeliverLines == {<<"/w", SP, "@">> \o Alice \o <<SP, "x">>}

\* the script and both threads, with a Directory and a Notifier that fail
NextDeliver ==
    \/ CallShift
    \/ CallMeeting
    \/ StartRun
    \/ RunIteration
    \/ RunIterationFailing
    \/ HandleCommand(DeliverLines, {NoUsers, Directory("error", {})}, PostResults)
    \/ AwaitInput

\* started with the two small tables, a minute before their first trigger
DeliverStarts ==
    {<<CfgOverlap,  At(0, "monday", 8 * MinPerHour + 59)>>,
     <<CfgMidnight, At(0, "monday", MinPerDay - 2)>>}

SpecDeliver == InitAt(DeliverStarts) /\ [][NextDeliver]_vars

\* the script and the run loop, started from the configurations whose jobs
\* come due around the start
SpecLate == InitAt(DeliverStarts) /\ [][Next]_vars

\* the words of a send command with switches
SwitchWords == {"-C", "C9", "hi"}

\* the send commands of up to MaxArgs words after /w
SwitchLines ==
    UNION {LinesOf(<<"/w">> \o ws) :
                ws \in UNION {[1..n -> SwitchWords] : n \in 0..MaxArgs}}

\* the command thread reading send commands with switches
NextSwitch ==
    \/ StartRun
    \/ HandleCommand(SwitchLines, {NoUsers}, {"ok"})
    \/ AwaitInput

SpecSwitch == Init /\ [][NextSwitch]_vars

\* lines of each kind: help, help for a command, a send command that
\* succeeds, one that fails, an unknown command
MixedLines ==
    {<<"help">>, <<"help", SP, "/w">>, <<"/w", SP, "hi">>, <<"/w">>, <<"hi", SP, "hi">>}

\* the script and both threads: commands are read in any order with the
\* evaluations of the run loop
NextMixed ==
    \/ CallShift
    \/ CallMeeting
    \/ StartRun
    \/ RunIteration
    \/ HandleCommand(MixedLines, {NoUsers}, {"ok"})
    \/ AwaitInput

SpecMixed == InitAt(DeliverStarts) /\ [][NextMixed]_vars

---------------------------------------------------------------------------
(* Notions the claims are stated in *)

\* the category has a flag in enable_features and the flag is true
FlagOn(cat) ==
    cat \in DOMAIN config.enable_features /\ config.enable_features[cat]

\* the latest evaluation fell in the minute (day, time) of job j
OnItsMinute(j) ==
    Weekday(tickTime) = j.day /\ MinuteOfDay(tickTime) = j.at_time

\* the latest occurrence of the (day, time) of job j at or before time t
LastOccurrence(j, t) ==
    LET c == At(t \div MinPerWeek, j.day, j.at_time)
    IN  IF c <= t THEN c ELSE c - MinPerWeek

\* the instruction a trigger of the table stands for
TriggerInstr(tr) == <<tr.day, AtTime(convert_to_24h_format(tr.time)), tr.message>>

\* the elements of a sequence
Range(seq) == {seq[k] : k \in 1..Len(seq)}

\* the block of shift_message_config that holds the triggers of a shift category
BlockOf(cat) ==
    CASE cat = "day_shift" -> "day_shift"
      [] cat = "night_shift" -> "night_shift"
      [] cat = "weekend_shift" -> "weekend"
      [] cat = "overtime_shift" -> "overtime"

\* index of the latest constructor call among the calls, 0 if there is none
LastInit ==
    IF \E k \in 1..Len(calls) : calls[k].op = "init"
    THEN CHOOSE k \in 1..Len(calls) :
            calls[k].op = "init" /\ \A m \in (k + 1)..Len(calls) : calls[m].op # "init"
    ELSE 0

\* the tokens of a line split on whitespace: runs of spaces separate, and
\* there is no empty token
RECURSIVE WhitespaceTokens(_)
WhitespaceTokens(s) ==
    LET t == Strip(s)
    IN  IF t = <<>> THEN <<>>
        ELSE IF \E k \in 1..Len(t) : t[k] = SP
        THEN LET k == CHOOSE k \in 1..Len(t) :
                        t[k] = SP /\ \A i \in 1..(k - 1) : t[i] # SP
             IN  <<SubSeq(t, 1, k - 1)>> \o WhitespaceTokens(SubSeq(t, k + 1, Len(t)))
        ELSE <<t>>

---------------------------------------------------------------------------
(* The claims *)

\* C1: tick exactness. On every evaluation of the run loop, an installed
\* instruction (d, t) is delivered if and only if the evaluation's (weekday,
\* minute of day) is (d, t); so not at (d, t + 1) and not on another day.
C1_TickExactness ==
    ticked => \A i \in 1..Len(jobs) : (i \in fired) <=> OnItsMinute(jobs[i])

\* C2: duplicate suppression. After any sequence of planning calls no two jobs
\* of the schedule have the same (day, time, payload).
C2_NoDuplicateTriples ==
    \A i, j \in 1..Len(jobs) : i # j => Instr(jobs[i]) # Instr(jobs[j])

\* C3: conflict policy. Two triggers with the same (day, time) and different
\* payloads leave one installed instruction for that (day, time): no two jobs
\* share a (day, time) with different payloads.
C3_OneInstructionPerSlot ==
    \A i, j \in 1..Len(jobs) :
        (jobs[i].day = jobs[j].day /\ jobs[i].at_time = jobs[j].at_time)
            => jobs[i].message = jobs[j].message

\* C4: feature gating. A planning call for a category whose flag is false or
\* missing adds no job, so every job of the schedule and every delivery of
\* the run loop belongs to a category whose flag is on.
C4_FeatureGating ==
    /\ \A k \in 1..Len(calls) :
          (calls[k].op # "init" /\ ~FlagOn(calls[k].arg))
              => calls[k].last < calls[k].first
    /\ \A i \in 1..Len(jobs) : FlagOn(jobs[i].cat)
    /\ \A i \in fired : FlagOn(jobs[i].cat)

\* C4 witness: after a planning call for a shift category that is switched
\* off, the run loop evaluated the very minute of one of its triggers and
\* delivered nothing.
C4_Witness ==
    /\ ticked
    /\ fired = {}
    /\ \E k \in 1..Len(calls) :
          /\ calls[k].op = "shift"
          /\ ~FlagOn(calls[k].arg)
          /\ \E tr \in Range(ShiftTriggers(ShiftConfig(config, calls[k].arg))) :
                /\ tr.day = Weekday(tickTime)
                /\ AtTime(convert_to_24h_format(tr.time)) = MinuteOfDay(tickTime)

\* C5: planner completeness. After a planning call for a category whose flag
\* is on has returned, every trigger of that category's block and every
\* weekday of its days is an installed instruction; with the shipped
\* configuration this covers the four shift blocks.
C5_PlannerComplete ==
    pc # "crashed" =>
        \A k \in (LastInit + 1)..Len(calls) :
            FlagOn(calls[k].arg) =>
                LET trigs == IF calls[k].op = "shift"
                             THEN ShiftTriggers(
                                    config.shift_message_config[BlockOf(calls[k].arg)])
                             ELSE MeetingTriggers(config.meeting_reminders)
                IN  \A tr \in Range(trigs) :
                        ValidTimeText(tr.time) =>
                            \E i \in 1..Len(jobs) : Instr(jobs[i]) = TriggerInstr(tr)

\* C6: idempotent re-arming. Installing the same plan a second time gives the
\* schedule that installing it once gives: a planning call that repeats the
\* call before it leaves as many jobs as there were after that call.
C6_IdempotentRearm ==
    \A k \in 2..Len(calls) :
        (calls[k].op # "init" /\ calls[k].op = calls[k - 1].op
                              /\ calls[k].arg = calls[k - 1].arg)
            => calls[k].last = calls[k - 1].last

\* C7: no double firing. No job is delivered more than once in one wall-clock
\* minute, however often run_pending is evaluated in that minute.
C7_NoDoubleFiring ==
    \A i \in 1..Len(hist) : hist[i].cnt <= 1

\* C7 witness: run_pending was evaluated at least twice in one wall-clock
\* minute, a job was delivered in that minute and the latest evaluation did
\* not deliver it again.
C7_Witness ==
    /\ evals >= 2
    /\ \E i \in 1..Len(hist) :
          /\ OnItsMinute(jobs[i])
          /\ hist[i].cnt = 1
          /\ hist[i].lastSent = tickTime
          /\ i \notin fired

\* C8: missed ticks are not backfilled. A delivery only happens on an
\* evaluation whose (weekday, minute of day) is the instruction's (day, time).
C8_NoBackfill ==
    ticked => \A i \in fired : OnItsMinute(jobs[i])

\* C9: no duplicate and no missed firing. While the process runs without
\* being suspended, every occurrence of an instruction's (day, time) that the
\* run loop has passed was delivered at that occurrence, once.
C9_ExactlyOncePerOccurrence ==
    (ticked /\ ~paused) =>
        \A i \in 1..Len(jobs) :
            LET occ == LastOccurrence(jobs[i], tickTime)
            IN  occ > runStart => (hist[i].lastSent = occ /\ hist[i].cnt <= 1)

\* C10: send-command parsing. For a /w line, scanning its whitespace-separated
\* tokens left to right, -C and the token after it give the destination and
\* the other tokens, in order, the message; the delivery goes to that
\* destination, or to the default channel without -C, with that message.
C10_SendParsing ==
    LET toks == WhitespaceTokens(cmdOut.line)
    IN  (cmdOut.kind # "none" /\ toks # <<>> /\ toks[1] = <<"/w">>) =>
            LET r == Scan(Tail(toks), 1, None, <<>>)
                dest == IF r.channel_id.some THEN r.channel_id
                        ELSE DefaultChannel(config, <<"/w">>)
                text == Join(r.message)
            IN  (dest.some /\ text # <<>>) =>
                    /\ cmdOut.kind = "sent"
                    /\ cmdOut.channel = dest.val
                    /\ cmdOut.text = text

\* the send command as the grammar reads a line: its whitespace-separated
\* tokens scanned left to right, the destination (of -C, else the default of
\* the command) and the message of the other tokens
Parsed(cfg, line) ==
    LET toks == WhitespaceTokens(line)
        r == Scan(Tail(toks), 1, None, <<>>)
    IN  [dest |-> IF r.channel_id.some THEN r.channel_id
                  ELSE DefaultChannel(cfg, <<"/w">>),
         text |-> Join(r.message)]

\* the first whitespace-separated token of a line, empty for a blank line
FirstToken(line) ==
    LET toks == WhitespaceTokens(line)
    IN  IF toks = <<>> THEN <<>> ELSE toks[1]

\* C11: empty message and missing destination. A /w line whose message is
\* empty, or that has neither a -C destination nor a default destination,
\* gets the usage message and no send_message call is made.
C11_NoSendOnError ==
    (cmdOut.kind # "none" /\ FirstToken(cmdOut.line) = <<"/w">>) =>
        LET p == Parsed(config, cmdOut.line)
        IN  (~p.dest.some \/ p.text = <<>>) =>
                (cmdOut.kind = "usage" /\ sends = {})

\* C12: unknown command. A line whose first token is neither help nor /w
\* gets the unknown-command message naming that token, and no send_message
\* call is made.
C12_UnknownCommand ==
    (cmdOut.kind # "none" /\ FirstToken(cmdOut.line) \notin {<<"help">>, <<"/w">>}) =>
        /\ cmdOut.kind = "unrecognized"
        /\ cmdOut.name = FirstToken(cmdOut.line)
        /\ sends = {}

\* C12 witness: the line "hi -C C9 hi", with a switch and message tokens, was
\* reported as unknown command hi.
C12_Witness ==
    /\ cmdOut.kind = "unrecognized"
    /\ WhitespaceTokens(cmdOut.line) = <<<<"hi">>, <<"-C">>, <<"C9">>, <<"hi">>>>
    /\ cmdOut.name = <<"hi">>
    /\ sends = {}

\* C13: message reconstruction. The message a send command delivers is the
\* non-switch tokens of the line joined by one space each, and holds no two
\* consecutive spaces.
C13_MessageReconstruction ==
    cmdOut.kind = "sent" =>
        /\ \A k \in 1..(Len(cmdOut.text) - 1) :
                ~(cmdOut.text[k] = SP /\ cmdOut.text[k + 1] = SP)
        /\ \A send \in sends : \A post \in Range(send.posts) :
                \A k \in 1..(Len(post.text) - 1) :
                    ~(post.text[k] = SP /\ post.text[k + 1] = SP)

\* the handles of the mentions of a text, from index i on: after each @, the
\* longest run of word characters, wherever it ends
RECURSIVE Mentions(_, _)
Mentions(s, i) ==
    IF i > Len(s) THEN <<>>
    ELSE IF s[i] = "@" /\ i < Len(s) /\ s[i + 1] \in WordChars
    THEN <<SubSeq(s, i + 1, RunEnd(s, i + 1))>> \o Mentions(s, RunEnd(s, i + 1) + 1)
    ELSE Mentions(s, i + 1)

\* number of mentions of handle in a text
Count(handle, s) == Cardinality({k \in 1..Len(Mentions(s, 1)) : Mentions(s, 1)[k] = handle})

\* number of places of a text at which pat stands
Occurrences(s, pat) ==
    Cardinality({k \in 1..(Len(s) - Len(pat) + 1) : SubSeq(s, k, k + Len(pat) - 1) = pat})

\* the Directory resolves handle
Resolves(dir, handle) == dir.mode = "ok" /\ handle \in dir.names

\* C14: resolved mention substitution. In the text posted for a message,
\* every mention of a handle the Directory resolves to U has become <@U>:
\* no mention of the handle is left and <@U> stands at least once for each.
C14_ResolvedMentions ==
    \A send \in sends : \A post \in Range(send.posts) :
        \A handle \in Range(Mentions(send.message, 1)) \ {Here} :
            Resolves(send.dir, handle) =>
                /\ Count(handle, post.text) = 0
                /\ Occurrences(post.text, UserTag(UserId(handle)))
                        >= Count(handle, send.message)

\* C15: unresolved mention. A message with a mention the Directory does not
\* resolve is still posted, once, and the posted text holds each mention of
\* such a handle as it was written.
C15_UnresolvedMentions ==
    \A send \in sends :
        LET missed == {handle \in Range(Mentions(send.message, 1)) \ {Here} :
                            ~Resolves(send.dir, handle)}
        IN  missed # {} =>
                /\ Len(send.posts) = 1
                /\ \A handle \in missed :
                        Count(handle, send.posts[1].text) = Count(handle, send.message)

\* C16: broadcast token. In the text posted for a message, every @here has
\* become <!here>, whatever the Directory holds: no @here is left and <!here>
\* stands at least once for each.
C16_Broadcast ==
    \A send \in sends : \A post \in Range(send.posts) :
        Count(Here, send.message) > 0 =>
            /\ Count(Here, post.text) = 0
            /\ Occurrences(post.text, <<"<", "!">> \o Here \o <<">">>)
                    >= Count(Here, send.message)

\* the thread that made a send_message call is still in its loop
StillLooping(send) ==
    IF send.src = ByCommand THEN cmdThread = "alive" ELSE pc = "running"

\* C17: delivery failure containment. After a send_message call in which the
\* Directory lookup or the Notifier post failed, with an API error or with
\* any other exception, the thread that made the call is still in its loop:
\* the tick loop for a scheduled firing, the command loop for a send command.
C17_FailureContained ==
    \A send \in sends :
        send.result \in {"api_error", "error", "lookup_error"} => StillLooping(send)

\* C18: a hanging delivery does not stall the tick loop. While a Notifier
\* post never returns, whichever thread started it, the tick loop is not
\* blocked.
C18_HangDoesNotStall ==
    \A send \in sends : Hangs(send) => pc = "running"

\* C19: no automatic retry. Every send_message call makes at most one
\* Notifier post, and no job run whose post failed is sent again by a later
\* evaluation.
C19_NoRetry ==
    \A send \in sends :
        /\ Len(send.posts) <= 1
        /\ send.src \notin failed

\* C19 witness: the post of a job run failed, the job was rescheduled, and a
\* later evaluation was made with the tick loop still running.
C19_Witness ==
    /\ pc = "running"
    /\ \E src \in failed :
        /\ src.job \in 1..Len(jobs)
        /\ jobs[src.job].next_run > src.due
        /\ hist[src.job].lastSent < tickTime

\* C20: a malformed trigger time is local to its entry. After a
\* schedule_shift_reminders call for an enabled category whose block holds an
\* entry with a malformed time, the call has not been left by an exception,
\* it has installed every entry of the block with a valid time, and it has
\* installed nothing for the malformed entry.
C20_MalformedTimeLocal ==
    \A k \in (LastInit + 1)..Len(calls) :
        LET trigs == ShiftTriggers(ShiftConfig(config, calls[k].arg))
            added == {jobs[i] : i \in calls[k].first..calls[k].last}
        IN  (/\ calls[k].op = "shift"
             /\ FlagOn(calls[k].arg)
             /\ \E tr \in Range(trigs) : ~ValidTimeText(tr.time)) =>
                /\ ~calls[k].raised
                /\ \A tr \in Range(trigs) :
                        IF ValidTimeText(tr.time)
                        THEN \E j \in added : Instr(j) = TriggerInstr(tr)
                        ELSE \A j \in added : ~(j.day = tr.day /\ j.message = tr.message)

\* C21: time codec round trip. The 12-hour text of the current minute,
\* converted back by convert_to_24h_format, is the current minute of the day,
\* with 12:mm AM giving 00:mm and 12:mm PM giving 12:mm; and a trigger
\* written as that text, with or without leading zero, is planned at that
\* minute, a time from 00:00 to 23:59.
C21_CodecRoundTrip ==
    /\ logged # NoLog =>
        /\ ValidTimeText(logged)
        /\ AtTime(convert_to_24h_format(logged)) = MinuteOfDay(now)
        /\ logged.h = 12 =>
              convert_to_24h_format(logged).H = (IF logged.p = "AM" THEN 0 ELSE 12)
    /\ \A i \in 1..Len(jobs) :
        /\ jobs[i].at_time \in 0..(MinPerDay - 1)
        /\ jobs[i].at_time = MinuteOfDay(now)

\* C21 witness: at 00:30 the log line starts with 12:30 AM, and the trigger
\* written 12:30 AM is planned at minute 30 of the day.
C21_Witness ==
    /\ logged = T(12, 30, "AM")
    /\ MinuteOfDay(now) = 30
    /\ jobs # <<>>
    /\ jobs[1].at_time = 30

\* C22: canonical dedup keys. Among the jobs one schedule_meeting_reminders
\* call installs, no two stand for the same day and the same time of day,
\* however the times are written in the table.
C22_CanonicalKeys ==
    \A k \in 1..Len(calls) :
        calls[k].op = "meeting" =>
            \A i, j \in calls[k].first..calls[k].last :
                (i # j /\ i <= Len(jobs) /\ j <= Len(jobs)) =>
                    ~(jobs[i].day = jobs[j].day /\ jobs[i].at_time = jobs[j].at_time)

\* C23: day gate. Every send_message call made by the closure of a job, in
\* every evaluation, on time or late, is made while the weekday is the day of
\* the job; a job evaluated on another weekday sends nothing.
C23_DayGate ==
    /\ ticked => \A i \in fired : Weekday(tickTime) = jobs[i].day
    /\ \A send \in sends :
            (send.src # ByCommand /\ send.src.job <= Len(jobs)) =>
                (/\ send.src.job \in fired
                 /\ Weekday(tickTime) = jobs[send.src.job].day)

\* C23 witness: in one late evaluation a job was run and sent on its day,
\* outside its minute, and another job was run on a weekday that is not its
\* day and sent nothing.
C23_Witness ==
    /\ ticked
    /\ \E i \in fired :
            ~OnItsMinute(jobs[i]) /\ Weekday(tickTime) = jobs[i].day
    /\ \E j \in 1..Len(jobs) :
            /\ jobs[j].last_run = tickTime
            /\ Weekday(tickTime) # jobs[j].day
            /\ j \notin fired
            /\ \A send \in sends : send.src.job # j

\* C24: commands do not touch the schedule. A step in which handle_command
\* handles a line, of whatever kind, leaves the installed jobs and the
\* configuration with its feature flags as they were.
C24_CommandsKeepSchedule ==
    [][cmdOut' # cmdOut => (jobs' = jobs /\ config' = config)]_vars

\* C24 witness: a send command was handled and sent between two evaluations
\* of the run loop, with jobs installed.
C24_Witness ==
    /\ cmdOut.kind = "sent"
    /\ ticked
    /\ jobs # <<>>
    /\ \E send \in sends : send.src = ByCommand

\* the Notifier posts in progress: one per thread that is inside a
\* chat_postMessage call that has not returned
PostsInProgress ==
    (IF pc = "blocked" THEN 1 ELSE 0) + (IF cmdThread = "blocked" THEN 1 ELSE 0)

\* C25: serialized collaborator calls. The tick loop and the command loop
\* never have two Notifier posts in progress at the same time.
C25_SerializedCalls == PostsInProgress <= 1

\* the places of the tokens toks, from i on, at which the left-to-right scan
\* reads a -C switch: a -C that a token follows and that is not itself the
\* value of the switch before it
RECURSIVE SwitchPlaces(_, _)
SwitchPlaces(toks, i) ==
    IF i > Len(toks) THEN {}
    ELSE IF toks[i] = <<"-C">> /\ i + 1 <= Len(toks)
    THEN {i} \cup SwitchPlaces(toks, i + 2)
    ELSE SwitchPlaces(toks, i + 1)

\* the tokens of toks, from i on, at the places other than skip, in order
RECURSIVE Others(_, _, _)
Others(toks, i, skip) ==
    IF i > Len(toks) THEN <<>>
    ELSE IF i \in skip THEN Others(toks, i + 1, skip)
    ELSE <<toks[i]>> \o Others(toks, i + 1, skip)

\* the greatest element of a non-empty set of numbers
Greatest(S) == CHOOSE x \in S : \A y \in S : y <= x

\* C26: switch edge cases. For a /w line with a message: with several -C
\* switches each followed by a token, the delivery goes to the token after the
\* last of them and its message holds none of the switch/value pairs; with -C
\* as the final token, that -C sets no destination and stays in the message,
\* and the delivery goes to the earlier -C value or, without one, to the
\* default destination.
C26_SwitchEdgeCases ==
    (cmdOut.kind # "none" /\ FirstToken(cmdOut.line) = <<"/w">>) =>
        LET toks == Tail(WhitespaceTokens(cmdOut.line))
            sw == SwitchPlaces(toks, 1)
            pairs == sw \cup {i + 1 : i \in sw}
            message == Others(toks, 1, pairs)
            final == toks # <<>> /\ toks[Len(toks)] = <<"-C">> /\ Len(toks) \notin pairs
            dest == IF sw # {} THEN Some(toks[Greatest(sw) + 1])
                    ELSE DefaultChannel(config, <<"/w">>)
        IN  /\ (Cardinality(sw) >= 2 /\ message # <<>>) =>
                /\ cmdOut.kind = "sent"
                /\ cmdOut.channel = toks[Greatest(sw) + 1]
                /\ cmdOut.text = Join(message)
            /\ (final /\ dest.some) =>
                /\ cmdOut.kind = "sent"
                /\ cmdOut.channel = dest.val
                /\ cmdOut.text = Join(message)
                /\ message[Len(message)] = <<"-C">>

====
